---- MODULE Spec2Model ----
(***************************************************************************)
(* LifeOS: capacity catalog, state manager, task modulator and calendar    *)
(* modulator, modelled from the TypeScript sources.                        *)
(*                                                                         *)
(* Conventions.  An optional value (reason?, estimatedMinutes?) is a set:  *)
(* {} when absent, {v} when present.  A Date is a number of minutes.       *)
(* Arrays that the code only tests with includes() are sets; arrays whose  *)
(* order the code reads are sequences.  Calendar hours are held exactly,   *)
(* in sixtieths of an hour (eventHours = minutes / 60 is kept as the       *)
(* number of minutes, a cap of h hours as h * 60); the event times of the  *)
(* model are multiples of 15 minutes, for which the code's floating-point  *)
(* sums are exact as well.                                                 *)
(***************************************************************************)
EXTENDS Integers, Sequences, FiniteSets, TLC

VARIABLES
    currentState,   \* StateManager.currentState
    stateSetAt,     \* StateManager.stateSetAt
    observer,       \* whether options.onStateChange was supplied
    notified,       \* how many times the observer has been invoked
    clock,          \* the wall clock read by new Date()
    last,           \* the last StateManager call: its arguments, the fields before it, the events
                    \* it handed to the observer and the value it returned
    ncalls,         \* StateManager calls made so far
    tasks,          \* TaskModulator.modulate: argument tasks
    taskConfig,     \* TaskModulator.modulate: argument config
    taskResult,     \* TaskModulator.modulate: returned TaskModulationResult (None before the call)
    calEvents,      \* CalendarModulator.modulate: argument events
    calConfig,      \* CalendarModulator.modulate: argument config
    calResult,      \* CalendarModulator.modulate: returned CalendarModulationResult (None before the call)
    connected,      \* the connected field of each integration object
    fetched,        \* the last fetch made on an integration directly: who was asked, whether it
                    \* was connected, what it returned
    taskManagers,   \* LifeOS.taskManagers
    calendars,      \* LifeOS.calendars
    listed,         \* the last getTaskManagers() / getCalendars(): what it returned, from what
    pending,        \* the getDailyView() call in flight: its locals and where it is suspended
    view,           \* the DailyView the last getDailyView() resolved to (None before)
    stateFile,      \* .lifeos-state.json: None while it does not exist, else its lastState
    cliRun          \* the CLI process: where it is, the state it started in, the state the
                    \* process before it ended in

smVars == <<currentState, stateSetAt, observer, notified, clock, last, ncalls>>
taskVars == <<tasks, taskConfig, taskResult>>
calVars == <<calEvents, calConfig, calResult>>
lifeVars == <<connected, fetched, taskManagers, calendars, listed, pending, view>>
cliVars == <<stateFile, cliRun>>
vars == <<currentState, stateSetAt, observer, notified, clock, last, ncalls,
          tasks, taskConfig, taskResult, calEvents, calConfig, calResult,
          connected, fetched, taskManagers, calendars, listed, pending, view,
          stateFile, cliRun>>

(***************************************************************************)
(* Bounds of the model.                                                    *)
(***************************************************************************)
MaxCalls == 4
MaxClock == 2
MaxTasks == 3
MaxEvents == 3

(***************************************************************************)
(* Helpers for optional values and arrays.                                 *)
(***************************************************************************)
None == {}

Some(v) == {v}

\* a ?? d
OrElse(a, d) == IF a = {} THEN d ELSE CHOOSE v \in a : TRUE

\* Array.prototype.indexOf: zero-based position of the first match, -1 when absent
IndexOf(arr, v) ==
    IF \E i \in 1..Len(arr) : arr[i] = v
    THEN (CHOOSE i \in 1..Len(arr) : arr[i] = v /\ \A j \in 1..(i - 1) : arr[j] # v) - 1
    ELSE -1

(***************************************************************************)
(* Capacity states.                                                        *)
(***************************************************************************)
DEFAULT_CAPACITY == "foggy"

CAPACITY_STATES == <<"foggy", "anxious", "flat", "overstimulated", "driven", "productive">>

\* mutant: validates against the keys of the catalog instead of CAPACITY_STATES
isValidCapacity_catalogKeys(value) == value \in {"foggy", "anxious", "flat", "overstimulated",
                                                 "driven", "productive", "social"}

isValidCapacity(value) == \E i \in 1..Len(CAPACITY_STATES) : CAPACITY_STATES[i] = value

(***************************************************************************)
(* The catalog: one StateConfig per key of DEFAULT_STATE_CONFIGS.          *)
(***************************************************************************)
DEFAULT_STATE_CONFIGS ==
    [ foggy |->
        [ state |-> "foggy",
          taskVisibility |-> [ visiblePriorities |-> {"essential"},
                               manageableLoads |-> {"minimal", "low"},
                               maxVisibleTasks |-> 3 ],
          calendarIntent |-> [ honoredIntents |-> {"essential", "recovery"},
                               suggestCancellation |-> TRUE,
                               addRecoveryBuffers |-> TRUE,
                               bufferMinutes |-> 30 ],
          workload |-> [ maxDailyMinutes |-> 60, maxCalendarHours |-> 2,
                         showWorkTasks |-> TRUE, showPersonalTasks |-> FALSE,
                         energyBudget |-> 3 ],
          fallback |-> [ fallbackState |-> "foggy", canAutoDegrade |-> FALSE,
                         degradeTriggers |-> {} ] ],
      anxious |->
        [ state |-> "anxious",
          taskVisibility |-> [ visiblePriorities |-> {"essential"},
                               manageableLoads |-> {"minimal"},
                               maxVisibleTasks |-> 2 ],
          calendarIntent |-> [ honoredIntents |-> {"essential", "recovery", "flexible"},
                               suggestCancellation |-> TRUE,
                               addRecoveryBuffers |-> TRUE,
                               bufferMinutes |-> 45 ],
          workload |-> [ maxDailyMinutes |-> 45, maxCalendarHours |-> 1,
                         showWorkTasks |-> TRUE, showPersonalTasks |-> FALSE,
                         energyBudget |-> 2 ],
          fallback |-> [ fallbackState |-> "foggy", canAutoDegrade |-> TRUE,
                         degradeTriggers |-> {"overwhelm", "panic", "shutdown"} ] ],
      flat |->
        [ state |-> "flat",
          taskVisibility |-> [ visiblePriorities |-> {"essential", "important"},
                               manageableLoads |-> {"minimal", "low"},
                               maxVisibleTasks |-> 4 ],
          calendarIntent |-> [ honoredIntents |-> {"essential", "recovery", "flexible", "collaborative"},
                               suggestCancellation |-> FALSE,
                               addRecoveryBuffers |-> TRUE,
                               bufferMinutes |-> 20 ],
          workload |-> [ maxDailyMinutes |-> 90, maxCalendarHours |-> 3,
                         showWorkTasks |-> TRUE, showPersonalTasks |-> TRUE,
                         energyBudget |-> 4 ],
          fallback |-> [ fallbackState |-> "foggy", canAutoDegrade |-> TRUE,
                         degradeTriggers |-> {"exhaustion", "withdrawal"} ] ],
      overstimulated |->
        [ state |-> "overstimulated",
          taskVisibility |-> [ visiblePriorities |-> {"essential"},
                               manageableLoads |-> {"minimal"},
                               maxVisibleTasks |-> 1 ],
          calendarIntent |-> [ honoredIntents |-> {"essential", "recovery"},
                               suggestCancellation |-> TRUE,
                               addRecoveryBuffers |-> TRUE,
                               bufferMinutes |-> 60 ],
          workload |-> [ maxDailyMinutes |-> 30, maxCalendarHours |-> 1,
                         showWorkTasks |-> FALSE, showPersonalTasks |-> FALSE,
                         energyBudget |-> 1 ],
          fallback |-> [ fallbackState |-> "foggy", canAutoDegrade |-> TRUE,
                         degradeTriggers |-> {"meltdown", "shutdown", "overwhelm"} ] ],
      driven |->
        [ state |-> "driven",
          taskVisibility |-> [ visiblePriorities |-> {"essential", "important", "normal", "optional"},
                               manageableLoads |-> {"minimal", "low", "medium", "high"},
                               maxVisibleTasks |-> 15 ],
          calendarIntent |-> [ honoredIntents |-> {"focus", "collaborative", "recovery",
                                                   "transition", "flexible", "essential"},
                               suggestCancellation |-> FALSE,
                               addRecoveryBuffers |-> FALSE,
                               bufferMinutes |-> 10 ],
          workload |-> [ maxDailyMinutes |-> 480, maxCalendarHours |-> 8,
                         showWorkTasks |-> TRUE, showPersonalTasks |-> TRUE,
                         energyBudget |-> 10 ],
          fallback |-> [ fallbackState |-> "flat", canAutoDegrade |-> TRUE,
                         degradeTriggers |-> {"fatigue", "distraction", "depletion"} ] ],
      productive |->
        [ state |-> "productive",
          taskVisibility |-> [ visiblePriorities |-> {"essential", "important", "normal", "optional"},
                               manageableLoads |-> {"minimal", "low", "medium", "high"},
                               maxVisibleTasks |-> 25 ],
          calendarIntent |-> [ honoredIntents |-> {"focus", "collaborative", "recovery",
                                                   "transition", "flexible", "essential"},
                               suggestCancellation |-> FALSE,
                               addRecoveryBuffers |-> FALSE,
                               bufferMinutes |-> 5 ],
          workload |-> [ maxDailyMinutes |-> 600, maxCalendarHours |-> 10,
                         showWorkTasks |-> TRUE, showPersonalTasks |-> TRUE,
                         energyBudget |-> 12 ],
          fallback |-> [ fallbackState |-> "driven", canAutoDegrade |-> TRUE,
                         degradeTriggers |-> {"burnout", "overextension", "fatigue"} ] ],
      social |->
        [ state |-> "social",
          taskVisibility |-> [ visiblePriorities |-> {"essential", "important"},
                               manageableLoads |-> {"minimal", "low"},
                               maxVisibleTasks |-> 5 ],
          calendarIntent |-> [ honoredIntents |-> {"essential", "collaborative", "recovery", "flexible"},
                               suggestCancellation |-> FALSE,
                               addRecoveryBuffers |-> TRUE,
                               bufferMinutes |-> 15 ],
          workload |-> [ maxDailyMinutes |-> 120, maxCalendarHours |-> 6,
                         showWorkTasks |-> FALSE, showPersonalTasks |-> TRUE,
                         energyBudget |-> 7 ],
          fallback |-> [ fallbackState |-> "flat", canAutoDegrade |-> TRUE,
                         degradeTriggers |-> {"social fatigue", "overwhelmed", "withdrawal"} ] ] ]

(***************************************************************************)
(* StateManager.                                                           *)
(***************************************************************************)
getState == currentState

\* mutant: foggy's fallback block pasted from another entry of the catalog
getConfig_pastedFallback ==
    IF currentState = "foggy"
    THEN [ DEFAULT_STATE_CONFIGS.foggy EXCEPT !.fallback = DEFAULT_STATE_CONFIGS.social.fallback ]
    ELSE DEFAULT_STATE_CONFIGS[currentState]

getConfig == DEFAULT_STATE_CONFIGS[currentState]

getStateSetAt == stateSetAt

capacityOrder == <<"overstimulated", "anxious", "foggy", "flat", "driven", "productive">>

\* Moving to a lower index = degradation
isDegradation(from, to) == IndexOf(capacityOrder, to) < IndexOf(capacityOrder, from)

\* What a StateManager method leaves behind: the fields after the call, the
\* events it handed to the observer, and the value it returned.
Outcome(state, setAt, emitted, ret) ==
    [ currentState |-> state, stateSetAt |-> setAt, emitted |-> emitted, ret |-> ret ]

NoChange == Outcome(currentState, stateSetAt, <<>>, FALSE)

\* mutant: the same-state check is missing
setState_noSameCheck(newState, reason) ==
    IF ~isValidCapacity(newState) THEN NoChange
    ELSE LET event == [ previousState |-> currentState,
                        newState |-> newState,
                        timestamp |-> clock,
                        reason |-> reason,
                        isDegradation |-> isDegradation(currentState, newState) ]
         IN  Outcome(newState, event.timestamp,
                     IF observer THEN <<event>> ELSE <<>>, TRUE)

\* mutant: the observer is notified before the same-state check
setState_notifyFirst(newState, reason) ==
    IF ~isValidCapacity(newState) THEN NoChange
    ELSE LET event == [ previousState |-> currentState,
                        newState |-> newState,
                        timestamp |-> clock,
                        reason |-> reason,
                        isDegradation |-> isDegradation(currentState, newState) ]
         IN  IF newState = currentState
             THEN Outcome(currentState, stateSetAt, IF observer THEN <<event>> ELSE <<>>, FALSE)
             ELSE Outcome(newState, event.timestamp,
                          IF observer THEN <<event>> ELSE <<>>, TRUE)

\* mutant: the timestamp is refreshed before the same-state check
setState_touchFirst(newState, reason) ==
    IF ~isValidCapacity(newState) THEN NoChange
    ELSE IF newState = currentState THEN Outcome(currentState, clock, <<>>, FALSE)
    ELSE LET event == [ previousState |-> currentState,
                        newState |-> newState,
                        timestamp |-> clock,
                        reason |-> reason,
                        isDegradation |-> isDegradation(currentState, newState) ]
         IN  Outcome(newState, event.timestamp,
                     IF observer THEN <<event>> ELSE <<>>, TRUE)

setState(newState, reason) ==
    IF ~isValidCapacity(newState) THEN NoChange
    ELSE IF newState = currentState THEN NoChange
    ELSE LET event == [ previousState |-> currentState,
                        newState |-> newState,
                        timestamp |-> clock,
                        reason |-> reason,
                        isDegradation |-> isDegradation(currentState, newState) ]
         IN  Outcome(newState, event.timestamp,
                     IF observer THEN <<event>> ELSE <<>>, TRUE)

\* mutant: reset assigns the fields itself and notifies nobody
reset_silent == Outcome(DEFAULT_CAPACITY, clock, <<>>, TRUE)

reset == setState(DEFAULT_CAPACITY, Some("reset to default"))

\* mutant: degrades only on one of the state's configured degradeTriggers
degrade_configuredTriggersOnly(trigger) ==
    LET config == getConfig
    IN  IF ~config.fallback.canAutoDegrade THEN NoChange
        ELSE IF currentState = config.fallback.fallbackState THEN NoChange
        ELSE IF trigger \notin config.fallback.degradeTriggers THEN NoChange
        ELSE setState(config.fallback.fallbackState,
                      Some("degradation triggered: " \o trigger))

degrade(trigger) ==
    LET config == getConfig
    IN  IF ~config.fallback.canAutoDegrade THEN NoChange
        ELSE IF currentState = config.fallback.fallbackState THEN NoChange
        ELSE setState(config.fallback.fallbackState,
                      Some("degradation triggered: " \o trigger))

\* checkDegradationTriggers: indicators are given already lower-cased or not;
\* toLowerCase is a table over the indicator strings the model uses.
toLowerCase(s) ==
    CASE s = "Overwhelm" -> "overwhelm"
      [] s = "Panic" -> "panic"
      [] OTHER -> s

checkDegradationTriggers(indicators) ==
    SelectSeq(indicators, LAMBDA i : toLowerCase(i) \in getConfig.fallback.degradeTriggers)

(***************************************************************************)
(* Inputs of the StateManager calls.                                       *)
(***************************************************************************)
(* Integrations, the LifeOS orchestrator and the CLI before any call.      *)
(***************************************************************************)
\* AsanaIntegration, ObsidianIntegration, MockTaskManager
TaskSources == {"asana", "obsidian", "mock"}

\* GoogleCalendarIntegration, MockCalendar('work')
CalendarSources == {"google-calendar", "mock-work"}

\* connected = false in the base classes; the mock constructors set it
ConstructedConnected == [ i \in TaskSources \cup CalendarSources |-> i \in {"mock", "mock-work"} ]

NoFetch == [ source |-> "", op |-> "none", wasConnected |-> FALSE, items |-> <<>> ]

NoListing == [ op |-> "none", added |-> <<>>, connectedThen |-> {}, result |-> <<>> ]

NoRun == [ pc |-> "exited", command |-> "", value |-> "",
           startedIn |-> "", endedIn |-> "", previousEndedIn |-> "" ]

IdleLifeOS ==
    /\ connected = ConstructedConnected
    /\ fetched = NoFetch
    /\ taskManagers = <<>> /\ calendars = <<>>
    /\ listed = NoListing
    /\ pending = None
    /\ view = None

IdleCli == stateFile = None /\ cliRun = NoRun

(***************************************************************************)
\* names a caller may pass to setState: the recognized ones and some that are not
StateNames == {"foggy", "anxious", "flat", "overstimulated", "driven", "productive",
               "social", "invalid", ""}

Reasons == {None, Some("feeling worried")}

Triggers == {"fatigue", "anything"}

\* degrades counts the degrade calls that returned true since the last call
\* of another method
NoCall == [ op |-> "none", arg |-> "", reason |-> None, prevState |-> "",
            prevSetAt |-> 0, emitted |-> <<>>, ret |-> FALSE, degrades |-> 0 ]

Call(op, arg, reason, out) ==
    /\ ncalls < MaxCalls
    /\ ncalls' = ncalls + 1
    /\ currentState' = out.currentState
    /\ stateSetAt' = out.stateSetAt
    /\ notified' = notified + Len(out.emitted)
    /\ last' = [ op |-> op, arg |-> arg, reason |-> reason,
                 prevState |-> currentState, prevSetAt |-> stateSetAt,
                 emitted |-> out.emitted, ret |-> out.ret,
                 degrades |-> IF op # "degrade" THEN 0
                              ELSE IF out.ret THEN last.degrades + 1
                              ELSE last.degrades ]
    /\ UNCHANGED <<observer, clock>>

SetState(newState, reason) ==
    /\ Call("setState", newState, reason, setState(newState, reason))
    /\ UNCHANGED <<taskVars, calVars, lifeVars, cliVars>>

Reset ==
    /\ Call("reset", "", None, reset)
    /\ UNCHANGED <<taskVars, calVars, lifeVars, cliVars>>

Degrade(trigger) ==
    /\ Call("degrade", trigger, None, degrade(trigger))
    /\ UNCHANGED <<taskVars, calVars, lifeVars, cliVars>>

\* time passes between calls
Tick ==
    /\ clock < MaxClock
    /\ clock' = clock + 1
    /\ UNCHANGED <<currentState, stateSetAt, observer, notified, last, ncalls>>
    /\ UNCHANGED <<taskVars, calVars, lifeVars, cliVars>>

\* new StateManager(options): initialState ?? DEFAULT_CAPACITY, stateSetAt = new Date().
\* initialState is typed CapacityState, and the CLI passes it only what
\* isValidCapacity accepted (loadState), so it ranges over CAPACITY_STATES.
Init ==
    /\ currentState \in {CAPACITY_STATES[i] : i \in 1..Len(CAPACITY_STATES)}
    /\ clock = 0
    /\ stateSetAt = clock
    /\ observer \in BOOLEAN
    /\ notified = 0
    /\ last = NoCall
    /\ ncalls = 0
    /\ tasks = <<>> /\ taskConfig = DEFAULT_STATE_CONFIGS[DEFAULT_CAPACITY] /\ taskResult = None
    /\ calEvents = <<>> /\ calConfig = DEFAULT_STATE_CONFIGS[DEFAULT_CAPACITY] /\ calResult = None
    /\ IdleLifeOS /\ IdleCli

Next ==
    \/ \E newState \in StateNames, reason \in Reasons : SetState(newState, reason)
    \/ Reset
    \/ \E trigger \in Triggers : Degrade(trigger)
    \/ Tick

Spec == Init /\ [][Next]_vars

(***************************************************************************)
(* TaskModulator.                                                          *)
(***************************************************************************)
\* mutant: a task that an earlier call flagged as hidden stays out
isTaskEligible_skipsHidden(task, visibility, workload) ==
    IF ~task.visible THEN FALSE
    ELSE IF task.domain = "work" /\ ~workload.showWorkTasks THEN FALSE
    ELSE IF task.domain = "personal" /\ ~workload.showPersonalTasks THEN FALSE
    ELSE IF task.priority \notin visibility.visiblePriorities THEN FALSE
    ELSE IF task.cognitiveLoad \notin visibility.manageableLoads THEN FALSE
    ELSE TRUE

isTaskEligible(task, visibility, workload) ==
    IF task.domain = "work" /\ ~workload.showWorkTasks THEN FALSE
    ELSE IF task.domain = "personal" /\ ~workload.showPersonalTasks THEN FALSE
    ELSE IF task.priority \notin visibility.visiblePriorities THEN FALSE
    ELSE IF task.cognitiveLoad \notin visibility.manageableLoads THEN FALSE
    ELSE TRUE

priorityOrder == [ essential |-> 0, important |-> 1, normal |-> 2, optional |-> 3 ]

\* [...tasks].sort(by priorityOrder): Array.prototype.sort is stable, so a task
\* goes behind every task already placed whose rank is not greater than its own
RECURSIVE sortByPriority(_)
sortByPriority(ts) ==
    IF ts = <<>> THEN <<>>
    ELSE LET front == sortByPriority(SubSeq(ts, 1, Len(ts) - 1))
             t == ts[Len(ts)]
             k == Cardinality({i \in 1..Len(front) :
                      priorityOrder[front[i].priority] <= priorityOrder[t.priority]})
         IN  SubSeq(front, 1, k) \o <<t>> \o SubSeq(front, k + 1, Len(front))

\* task.estimatedMinutes ?? 15
taskMinutesOf(task) == OrElse(task.estimatedMinutes, 15)

\* mutant: the count check is off by one
maxVisibleReached_offByOne(visibleTasks, taskVisibility) ==
    Len(visibleTasks) > taskVisibility.maxVisibleTasks

\* visibleTasks.length >= taskVisibility.maxVisibleTasks
maxVisibleReached(visibleTasks, taskVisibility) ==
    Len(visibleTasks) >= taskVisibility.maxVisibleTasks

\* totalMinutes + taskMinutes > workload.maxDailyMinutes
workloadExceeded(totalMinutes, taskMinutes, workload) ==
    totalMinutes + taskMinutes > workload.maxDailyMinutes

\* mutant: a task over the minute cap is skipped and the loop goes on
RECURSIVE applyVisibilityLimit_continue(_, _, _, _, _)
applyVisibilityLimit_continue(sortedTasks, i, acc, taskVisibility, workload) ==
    IF i > Len(sortedTasks) THEN acc
    ELSE IF maxVisibleReached(acc.visibleTasks, taskVisibility)
         THEN [ acc EXCEPT !.workloadLimitReached = TRUE ]
    ELSE LET task == sortedTasks[i]
             taskMinutes == taskMinutesOf(task)
         IN  IF workloadExceeded(acc.totalMinutes, taskMinutes, workload)
             THEN applyVisibilityLimit_continue(sortedTasks, i + 1,
                     [ acc EXCEPT !.workloadLimitReached = TRUE ], taskVisibility, workload)
             ELSE applyVisibilityLimit_continue(sortedTasks, i + 1,
                     [ visibleTasks |-> Append(acc.visibleTasks, [ task EXCEPT !.visible = TRUE ]),
                       totalMinutes |-> acc.totalMinutes + taskMinutes,
                       workloadLimitReached |-> acc.workloadLimitReached ],
                     taskVisibility, workload)

\* mutant: the count check also runs once more after the last task
RECURSIVE applyVisibilityLimit_checkAfterLast(_, _, _, _, _)
applyVisibilityLimit_checkAfterLast(sortedTasks, i, acc, taskVisibility, workload) ==
    IF maxVisibleReached(acc.visibleTasks, taskVisibility)
    THEN [ acc EXCEPT !.workloadLimitReached = TRUE ]
    ELSE IF i > Len(sortedTasks) THEN acc
    ELSE LET task == sortedTasks[i]
             taskMinutes == taskMinutesOf(task)
         IN  IF workloadExceeded(acc.totalMinutes, taskMinutes, workload)
             THEN [ acc EXCEPT !.workloadLimitReached = TRUE ]
             ELSE applyVisibilityLimit_checkAfterLast(sortedTasks, i + 1,
                     [ visibleTasks |-> Append(acc.visibleTasks, [ task EXCEPT !.visible = TRUE ]),
                       totalMinutes |-> acc.totalMinutes + taskMinutes,
                       workloadLimitReached |-> acc.workloadLimitReached ],
                     taskVisibility, workload)

\* the for loop of modulate from index i on, with its locals in acc; a break
\* ends the loop with workloadLimitReached set
RECURSIVE applyVisibilityLimit(_, _, _, _, _)
applyVisibilityLimit(sortedTasks, i, acc, taskVisibility, workload) ==
    IF i > Len(sortedTasks) THEN acc
    ELSE IF maxVisibleReached(acc.visibleTasks, taskVisibility)
         THEN [ acc EXCEPT !.workloadLimitReached = TRUE ]
    ELSE LET task == sortedTasks[i]
             taskMinutes == taskMinutesOf(task)
         IN  IF workloadExceeded(acc.totalMinutes, taskMinutes, workload)
             THEN [ acc EXCEPT !.workloadLimitReached = TRUE ]
             ELSE applyVisibilityLimit(sortedTasks, i + 1,
                     [ visibleTasks |-> Append(acc.visibleTasks, [ task EXCEPT !.visible = TRUE ]),
                       totalMinutes |-> acc.totalMinutes + taskMinutes,
                       workloadLimitReached |-> acc.workloadLimitReached ],
                     taskVisibility, workload)

Max(a, b) == IF a >= b THEN a ELSE b

taskModulate(tasksArg, config) ==
    LET taskVisibility == config.taskVisibility
        workload == config.workload
        eligibleTasks == SelectSeq(tasksArg, LAMBDA task : isTaskEligible(task, taskVisibility, workload))
        sortedTasks == sortByPriority(eligibleTasks)
        loop == applyVisibilityLimit(sortedTasks, 1,
                    [ visibleTasks |-> <<>>, totalMinutes |-> 0, workloadLimitReached |-> FALSE ],
                    taskVisibility, workload)
        visibleTasks == loop.visibleTasks
        notVisible ==
            SelectSeq(tasksArg, LAMBDA t : ~\E j \in 1..Len(visibleTasks) : visibleTasks[j].id = t.id)
        hiddenTasks == [ i \in 1..Len(notVisible) |-> [ notVisible[i] EXCEPT !.visible = FALSE ] ]
    IN  [ totalTasks |-> Len(tasksArg),
          visibleTasks |-> visibleTasks,
          hiddenTasks |-> hiddenTasks,
          totalMinutes |-> loop.totalMinutes,
          workloadLimitReached |-> loop.workloadLimitReached,
          remainingCapacity |-> Max(0, workload.maxDailyMinutes - loop.totalMinutes) ]

getCognitiveLoadWeight(load) == [ minimal |-> 1, low |-> 2, medium |-> 4, high |-> 8 ][load]

(***************************************************************************)
(* Inputs of TaskModulator.modulate.                                       *)
(***************************************************************************)
\* A task's id names its content: the same task twice in a list is the same
\* task reported by two sources.
TaskId(priority, domain, load, minutes) ==
    priority \o "/" \o domain \o "/" \o load \o "/" \o (IF minutes = None THEN "-" ELSE "45")

\* An id is unique in the source system only: a task of one source that carries
\* the id another source gave to a different task.
CollidingTasks ==
    { [ id |-> TaskId("essential", "work", "minimal", None), priority |-> "important",
        domain |-> "work", cognitiveLoad |-> "high", estimatedMinutes |-> None,
        visible |-> TRUE ] }

TaskPool ==
    { [ id |-> TaskId(p, d, l, m), priority |-> p, domain |-> d, cognitiveLoad |-> l,
        estimatedMinutes |-> m, visible |-> TRUE ] :
        p \in {"essential", "important"}, d \in {"work", "personal"},
        l \in {"minimal", "high"}, m \in {None, Some(45)} }
    \cup CollidingTasks

TaskLists == UNION { [1..n -> TaskPool] : n \in 0..MaxTasks }

\* the catalog's configs, and driven with one cap or the other at zero
TaskConfigs ==
    { DEFAULT_STATE_CONFIGS[s] : s \in DOMAIN DEFAULT_STATE_CONFIGS }
    \cup { [ DEFAULT_STATE_CONFIGS.driven EXCEPT !.taskVisibility.maxVisibleTasks = 0 ],
           [ DEFAULT_STATE_CONFIGS.driven EXCEPT !.workload.maxDailyMinutes = 0 ] }

IdleStateManager ==
    /\ currentState = DEFAULT_CAPACITY
    /\ clock = 0
    /\ stateSetAt = clock
    /\ observer = FALSE
    /\ notified = 0
    /\ last = NoCall
    /\ ncalls = 0

TaskInit ==
    /\ IdleStateManager /\ IdleLifeOS /\ IdleCli
    /\ tasks \in TaskLists
    /\ taskConfig \in TaskConfigs
    /\ taskResult = None
    /\ calEvents = <<>> /\ calConfig = DEFAULT_STATE_CONFIGS[DEFAULT_CAPACITY] /\ calResult = None

ModulateTasks ==
    /\ taskResult = None
    /\ taskResult' = Some(taskModulate(tasks, taskConfig))
    /\ UNCHANGED <<tasks, taskConfig, smVars, calVars, lifeVars, cliVars>>

TaskNext == ModulateTasks

SpecTask == TaskInit /\ [][TaskNext]_vars

(***************************************************************************)
(* CalendarModulator.                                                      *)
(***************************************************************************)
\* mutant: honours an event only if the config lists its intent
shouldHonorEvent_configOnly(event, config) == event.intent \in config.honoredIntents

shouldHonorEvent(event, config) ==
    IF event.intent = "essential" THEN TRUE
    ELSE event.intent \in config.honoredIntents

\* event duration in minutes
getEventDuration(event) == event.endTime - event.startTime

\* mutant: an event goes in front of the events already placed that start when
\* it does
RECURSIVE sortByStartTime_tiesReversed(_)
sortByStartTime_tiesReversed(es) ==
    IF es = <<>> THEN <<>>
    ELSE LET front == sortByStartTime_tiesReversed(SubSeq(es, 1, Len(es) - 1))
             e == es[Len(es)]
             k == Cardinality({i \in 1..Len(front) : front[i].startTime < e.startTime})
         IN  SubSeq(front, 1, k) \o <<e>> \o SubSeq(front, k + 1, Len(front))

\* [...events].sort(by startTime): stable
RECURSIVE sortByStartTime(_)
sortByStartTime(es) ==
    IF es = <<>> THEN <<>>
    ELSE LET front == sortByStartTime(SubSeq(es, 1, Len(es) - 1))
             e == es[Len(es)]
             k == Cardinality({i \in 1..Len(front) : front[i].startTime <= e.startTime})
         IN  SubSeq(front, 1, k) \o <<e>> \o SubSeq(front, k + 1, Len(front))

\* a whole number of hours in the unit totalHours is held in
HoursToUnits(h) == h * 60

\* one pass of the for loop of modulate over event, its locals in acc
routeEvent(event, acc, calendarIntent, workload) ==
    LET shouldHonor == shouldHonorEvent(event, calendarIntent)
        eventHours == getEventDuration(event)
    IN  IF shouldHonor
        THEN IF acc.totalHours + eventHours <= HoursToUnits(workload.maxCalendarHours)
             THEN [ acc EXCEPT !.activeEvents = Append(@, [ event EXCEPT !.active = TRUE ]),
                               !.totalHours = @ + eventHours ]
             ELSE IF event.intent = "essential"
             THEN [ acc EXCEPT !.activeEvents = Append(@, [ event EXCEPT !.active = TRUE ]),
                               !.totalHours = @ + eventHours ]
             ELSE [ acc EXCEPT !.suggestedCancellations = Append(@, [ event EXCEPT !.active = FALSE ]) ]
        ELSE IF calendarIntent.suggestCancellation
        THEN [ acc EXCEPT !.suggestedCancellations = Append(@, [ event EXCEPT !.active = FALSE ]) ]
        ELSE acc

RECURSIVE routeEvents(_, _, _, _, _)
routeEvents(sortedEvents, i, acc, calendarIntent, workload) ==
    IF i > Len(sortedEvents) THEN acc
    ELSE routeEvents(sortedEvents, i + 1,
                     routeEvent(sortedEvents[i], acc, calendarIntent, workload),
                     calendarIntent, workload)

\* mutant: the second test is not an else branch, so a long gap gets a full
\* buffer and one filling the gap
RECURSIVE recoveryBuffersFrom_missingElse(_, _, _)
recoveryBuffersFrom_missingElse(evs, i, bufferMinutes) ==
    IF i > Len(evs) - 1 THEN <<>>
    ELSE LET current == evs[i]
             next == evs[i + 1]
             gapMinutes == next.startTime - current.endTime
             rest == recoveryBuffersFrom_missingElse(evs, i + 1, bufferMinutes)
             full == IF gapMinutes >= bufferMinutes
                     THEN << [ startTime |-> current.endTime,
                               endTime |-> current.endTime + bufferMinutes,
                               durationMinutes |-> bufferMinutes,
                               afterEventId |-> current.id ] >>
                     ELSE <<>>
             partial == IF gapMinutes > 0
                        THEN << [ startTime |-> current.endTime,
                                  endTime |-> next.startTime,
                                  durationMinutes |-> gapMinutes,
                                  afterEventId |-> current.id ] >>
                        ELSE <<>>
         IN  full \o partial \o rest

\* mutant: a pair of back-to-back events gets a buffer of no length
RECURSIVE recoveryBuffersFrom_zeroGap(_, _, _)
recoveryBuffersFrom_zeroGap(evs, i, bufferMinutes) ==
    IF i > Len(evs) - 1 THEN <<>>
    ELSE LET current == evs[i]
             next == evs[i + 1]
             gapMinutes == next.startTime - current.endTime
             rest == recoveryBuffersFrom_zeroGap(evs, i + 1, bufferMinutes)
         IN  IF gapMinutes >= bufferMinutes
             THEN << [ startTime |-> current.endTime,
                       endTime |-> current.endTime + bufferMinutes,
                       durationMinutes |-> bufferMinutes,
                       afterEventId |-> current.id ] >> \o rest
             ELSE IF gapMinutes >= 0
             THEN << [ startTime |-> current.endTime,
                       endTime |-> next.startTime,
                       durationMinutes |-> gapMinutes,
                       afterEventId |-> current.id ] >> \o rest
             ELSE rest

\* the buffers of the pairs (events[i], events[i+1]), (events[i+1], events[i+2]), ...
RECURSIVE recoveryBuffersFrom(_, _, _)
recoveryBuffersFrom(evs, i, bufferMinutes) ==
    IF i > Len(evs) - 1 THEN <<>>
    ELSE LET current == evs[i]
             next == evs[i + 1]
             gapMinutes == next.startTime - current.endTime
             rest == recoveryBuffersFrom(evs, i + 1, bufferMinutes)
         IN  IF gapMinutes >= bufferMinutes
             THEN << [ startTime |-> current.endTime,
                       endTime |-> current.endTime + bufferMinutes,
                       durationMinutes |-> bufferMinutes,
                       afterEventId |-> current.id ] >> \o rest
             ELSE IF gapMinutes > 0
             THEN << [ startTime |-> current.endTime,
                       endTime |-> next.startTime,
                       durationMinutes |-> gapMinutes,
                       afterEventId |-> current.id ] >> \o rest
             ELSE rest

generateRecoveryBuffers(evs, bufferMinutes) == recoveryBuffersFrom(evs, 1, bufferMinutes)

\* mutant: reports the limit as exceeded once the total reaches the cap
calendarModulate_limitAtCap(eventsArg, config) ==
    LET calendarIntent == config.calendarIntent
        workload == config.workload
        sortedEvents == sortByStartTime(eventsArg)
        loop == routeEvents(sortedEvents, 1,
                    [ activeEvents |-> <<>>, suggestedCancellations |-> <<>>, totalHours |-> 0 ],
                    calendarIntent, workload)
        recoveryBuffers ==
            IF calendarIntent.addRecoveryBuffers
            THEN generateRecoveryBuffers(loop.activeEvents, calendarIntent.bufferMinutes)
            ELSE <<>>
    IN  [ totalEvents |-> Len(eventsArg),
          activeEvents |-> loop.activeEvents,
          suggestedCancellations |-> loop.suggestedCancellations,
          recoveryBuffers |-> recoveryBuffers,
          totalHours |-> loop.totalHours,
          calendarLimitExceeded |-> loop.totalHours >= HoursToUnits(workload.maxCalendarHours) ]

calendarModulate(eventsArg, config) ==
    LET calendarIntent == config.calendarIntent
        workload == config.workload
        sortedEvents == sortByStartTime(eventsArg)
        loop == routeEvents(sortedEvents, 1,
                    [ activeEvents |-> <<>>, suggestedCancellations |-> <<>>, totalHours |-> 0 ],
                    calendarIntent, workload)
        recoveryBuffers ==
            IF calendarIntent.addRecoveryBuffers
            THEN generateRecoveryBuffers(loop.activeEvents, calendarIntent.bufferMinutes)
            ELSE <<>>
    IN  [ totalEvents |-> Len(eventsArg),
          activeEvents |-> loop.activeEvents,
          suggestedCancellations |-> loop.suggestedCancellations,
          recoveryBuffers |-> recoveryBuffers,
          totalHours |-> loop.totalHours,
          calendarLimitExceeded |-> loop.totalHours > HoursToUnits(workload.maxCalendarHours) ]

getIntentWeight(intent) ==
    [ recovery |-> 0, transition |-> 1, flexible |-> 2, focus |-> 4,
      collaborative |-> 5, essential |-> 3 ][intent]

(***************************************************************************)
(* Inputs of CalendarModulator.modulate.                                   *)
(***************************************************************************)
\* <<startTime, endTime>> in minutes: one hour, three hours, 45 minutes a
\* quarter after the first, one hour from 120, one hour from 180, and an event
\* that ends two hours before it starts
Intervals == { <<0, 60>>, <<0, 180>>, <<75, 120>>, <<120, 180>>, <<180, 240>>, <<120, 0>> }

TimeText(t) ==
    CASE t = 0 -> "0" [] t = 60 -> "60" [] t = 75 -> "75" [] t = 120 -> "120" [] t = 180 -> "180"
      [] t = 240 -> "240"

\* An event's id names its content: the same event twice in a list is the same
\* event reported by two calendars.
EventId(intent, iv) == intent \o "/" \o TimeText(iv[1]) \o "-" \o TimeText(iv[2])

EventPool ==
    { [ id |-> EventId(n, iv), startTime |-> iv[1], endTime |-> iv[2], intent |-> n,
        active |-> TRUE ] :
        n \in {"essential", "recovery", "focus"}, iv \in Intervals }

EventLists == UNION { [1..n -> EventPool] : n \in 0..MaxEvents }

\* the catalog's configs, and foggy with a honoredIntents list that leaves out essential
CalendarConfigs ==
    { DEFAULT_STATE_CONFIGS[s] : s \in DOMAIN DEFAULT_STATE_CONFIGS }
    \cup { [ DEFAULT_STATE_CONFIGS.foggy EXCEPT !.calendarIntent.honoredIntents = {"recovery"} ] }

CalendarInit ==
    /\ IdleStateManager /\ IdleLifeOS /\ IdleCli
    /\ calEvents \in EventLists
    /\ calConfig \in CalendarConfigs
    /\ calResult = None
    /\ tasks = <<>> /\ taskConfig = DEFAULT_STATE_CONFIGS[DEFAULT_CAPACITY] /\ taskResult = None

ModulateCalendar ==
    /\ calResult = None
    /\ calResult' = Some(calendarModulate(calEvents, calConfig))
    /\ UNCHANGED <<calEvents, calConfig, smVars, taskVars, lifeVars, cliVars>>

CalendarNext == ModulateCalendar

SpecCalendar == CalendarInit /\ [][CalendarNext]_vars

(***************************************************************************)
(* Claims about the StateManager, checked under Spec.                      *)
(***************************************************************************)
Recognized == {CAPACITY_STATES[i] : i \in 1..Len(CAPACITY_STATES)}

\* the fallback rule of the catalog entry of state s
FallbackOf(s) == DEFAULT_STATE_CONFIGS[s].fallback

\* the reason a call hands to setState
ReasonPassed ==
    CASE last.op = "setState" -> last.reason
      [] last.op = "reset" -> Some("reset to default")
      [] last.op = "degrade" -> Some("degradation triggered: " \o last.arg)
      [] OTHER -> None

\* C1: after setState(x) with a recognized x, getState() returns x, and the call
\* returned true exactly when x differed from the state held before it; only the
\* last state set is observable.
C1_SetStateThenGetState ==
    (last.op = "setState" /\ last.arg \in Recognized) =>
        /\ getState = last.arg
        /\ last.ret <=> (last.arg # last.prevState)

C1_Witness ==
    /\ ncalls >= 3
    /\ last.op = "setState" /\ last.arg \in Recognized
    /\ last.ret /\ getState = "flat" /\ last.prevState = "driven"

\* C4: with an observer, a call notifies it exactly once if it changed the
\* current state and not at all otherwise; the event carries the state before the
\* call, the state after it (a different one) and the reason passed.
C4_ObserverOncePerChange ==
    (last.op # "none" /\ observer) =>
        /\ Len(last.emitted) = (IF currentState # last.prevState THEN 1 ELSE 0)
        /\ \A i \in 1..Len(last.emitted) :
              /\ last.emitted[i].previousState = last.prevState
              /\ last.emitted[i].newState = currentState
              /\ last.emitted[i].previousState # last.emitted[i].newState
              /\ last.emitted[i].reason = ReasonPassed
        /\ notified <= ncalls

C4_Witness ==
    /\ observer /\ ncalls >= 3 /\ notified = 2
    /\ last.op = "setState" /\ last.reason = Some("feeling worried")
    /\ Len(last.emitted) = 1

\* C5: setState(s) with s the current state returns false, notifies nobody and
\* leaves the current state and the stateSetAt timestamp as they were.
C5_SameStateIsNoOp ==
    (last.op = "setState" /\ last.arg = last.prevState) =>
        /\ ~last.ret
        /\ last.emitted = <<>>
        /\ currentState = last.prevState
        /\ getStateSetAt = last.prevSetAt

C5_Witness ==
    /\ last.op = "setState" /\ last.arg = last.prevState
    /\ observer /\ clock > stateSetAt

\* C6: setState with a name that is not a recognized capacity state returns
\* false, keeps the current state and timestamp and notifies nobody, from every
\* current state.
C6_InvalidNameRejected ==
    (last.op = "setState" /\ last.arg \notin Recognized) =>
        /\ ~last.ret
        /\ last.emitted = <<>>
        /\ currentState = last.prevState
        /\ getStateSetAt = last.prevSetAt

C6_Witness ==
    /\ last.op = "setState" /\ last.arg = "invalid"
    /\ observer /\ clock > stateSetAt /\ currentState = "driven"

\* C7: degrade returns false, keeps the current state and notifies nobody
\* whenever the current state's canAutoDegrade is false or its fallback target is
\* the current state itself; degrade never changes the state foggy.
C7_DegradeBlocked ==
    /\ (/\ last.op = "degrade"
        /\ \/ ~FallbackOf(last.prevState).canAutoDegrade
           \/ FallbackOf(last.prevState).fallbackState = last.prevState) =>
            /\ ~last.ret
            /\ currentState = last.prevState
            /\ last.emitted = <<>>
            /\ getStateSetAt = last.prevSetAt
    /\ (last.op = "degrade" /\ last.prevState = "foggy") =>
            (~last.ret /\ currentState = "foggy")

C7_Witness ==
    /\ last.op = "degrade" /\ last.prevState = "foggy"
    /\ ~FallbackOf(last.prevState).canAutoDegrade
    /\ observer /\ clock > stateSetAt

\* the fallback targets as the documentation lists them
DocumentedFallback ==
    [ driven |-> "flat", productive |-> "driven", flat |-> "foggy",
      anxious |-> "foggy", overstimulated |-> "foggy" ]

\* C8: from a state that permits auto-degradation and whose fallback target is
\* another state, degrade returns true and the current state becomes that
\* fallback target, for every trigger, configured for the state or not.
C8_DegradeToFallback ==
    (/\ last.op = "degrade"
     /\ FallbackOf(last.prevState).canAutoDegrade
     /\ FallbackOf(last.prevState).fallbackState # last.prevState) =>
        /\ last.ret
        /\ currentState = FallbackOf(last.prevState).fallbackState
        /\ last.prevState \in DOMAIN DocumentedFallback
        /\ currentState = DocumentedFallback[last.prevState]

C8_Witness ==
    /\ last.op = "degrade" /\ last.ret
    /\ last.arg \notin FallbackOf(last.prevState).degradeTriggers
    /\ last.prevState = "productive" /\ currentState = "driven"

\* C9: whenever degrade returns true, the event it emits has isDegradation =
\* true: the state entered ranks strictly below the state left.
C9_DegradeIsMarkedDegradation ==
    (last.op = "degrade" /\ last.ret) =>
        \A i \in 1..Len(last.emitted) : last.emitted[i].isDegradation

\* C10: after reset the current state is foggy; the observer is notified once,
\* with the reason 'reset to default', when the state before was not foggy, and
\* not at all when it was: what setState(foggy, 'reset to default') does.
C10_ResetIsSetStateDefault ==
    (last.op = "reset") =>
        /\ currentState = "foggy"
        /\ Len(last.emitted) = (IF observer /\ last.prevState # "foggy" THEN 1 ELSE 0)
        /\ \A i \in 1..Len(last.emitted) :
              /\ last.emitted[i].previousState = last.prevState
              /\ last.emitted[i].newState = "foggy"
              /\ last.emitted[i].reason = Some("reset to default")
              /\ last.emitted[i].timestamp = getStateSetAt
        /\ (last.prevState = "foggy") => (getStateSetAt = last.prevSetAt)

C10_Witness ==
    /\ last.op = "reset" /\ last.prevState = "productive"
    /\ observer /\ Len(last.emitted) = 1 /\ clock > 0

C10_WitnessAlreadyFoggy ==
    /\ last.op = "reset" /\ last.prevState = "foggy"
    /\ observer /\ clock > stateSetAt

(***************************************************************************)
(* Claims about TaskModulator.modulate, checked under SpecTask.            *)
(***************************************************************************)
\* the sum of the tasks' estimatedMinutes, 15 for a task without an estimate
RECURSIVE SumMinutes(_)
SumMinutes(ts) ==
    IF ts = <<>> THEN 0
    ELSE (IF Head(ts).estimatedMinutes = {} THEN 15
          ELSE CHOOSE m \in Head(ts).estimatedMinutes : TRUE) + SumMinutes(Tail(ts))

\* C2: under a config with non-negative caps, visibleTasks has at most
\* maxVisibleTasks tasks and totalMinutes, the sum of their minutes, is at most
\* maxDailyMinutes; an essential task does not override the minute cap.
C2_VisibleWithinCaps ==
    \A r \in taskResult :
        (taskConfig.taskVisibility.maxVisibleTasks >= 0 /\ taskConfig.workload.maxDailyMinutes >= 0) =>
            /\ Len(r.visibleTasks) <= taskConfig.taskVisibility.maxVisibleTasks
            /\ r.totalMinutes = SumMinutes(r.visibleTasks)
            /\ r.totalMinutes <= taskConfig.workload.maxDailyMinutes

\* an essential, eligible task is hidden by the minute cap alone
C2_Witness ==
    \E r \in taskResult :
        /\ Len(tasks) = 3
        /\ \A i \in 1..3 : tasks[i].priority = "essential"
                           /\ isTaskEligible(tasks[i], taskConfig.taskVisibility, taskConfig.workload)
        /\ Len(r.visibleTasks) = 2
        /\ Len(r.visibleTasks) < taskConfig.taskVisibility.maxVisibleTasks
        /\ r.totalMinutes = taskConfig.workload.maxDailyMinutes
        /\ Len(r.hiddenTasks) = 1 /\ r.workloadLimitReached

(***************************************************************************)
(* Claims about CalendarModulator.modulate, checked under SpecCalendar.    *)
(***************************************************************************)
\* C3: every input event with intent essential is in activeEvents, flagged
\* active, whatever honoredIntents holds and however far the total is over the cap.
C3_EssentialAlwaysActive ==
    \A r \in calResult :
        \A i \in 1..Len(calEvents) :
            calEvents[i].intent = "essential" =>
                /\ \E j \in 1..Len(r.activeEvents) :
                      r.activeEvents[j] = [ calEvents[i] EXCEPT !.active = TRUE ]
                /\ Cardinality({j \in 1..Len(r.activeEvents) : r.activeEvents[j].id = calEvents[i].id})
                     = Cardinality({k \in 1..Len(calEvents) : calEvents[k].id = calEvents[i].id})

\* three essential events of three hours each, under a two-hour cap and a
\* honoredIntents list without essential
C3_Witness ==
    \E r \in calResult :
        /\ "essential" \notin calConfig.calendarIntent.honoredIntents
        /\ Len(calEvents) = 3
        /\ \A i \in 1..3 : calEvents[i].intent = "essential"
        /\ Len(r.activeEvents) = 3
        /\ r.totalHours >= 4 * HoursToUnits(calConfig.workload.maxCalendarHours)
        /\ r.calendarLimitExceeded

(***************************************************************************)
(* Claims about TaskModulator.modulate, checked under SpecTask (continued). *)
(***************************************************************************)
\* the three eligibility conditions, each on its own
DomainEnabled(task, config) ==
    /\ task.domain = "work" => config.workload.showWorkTasks
    /\ task.domain = "personal" => config.workload.showPersonalTasks

PriorityVisible(task, config) == task.priority \in config.taskVisibility.visiblePriorities

LoadManageable(task, config) == task.cognitiveLoad \in config.taskVisibility.manageableLoads

AllThreeHold(task, config) ==
    DomainEnabled(task, config) /\ PriorityVisible(task, config) /\ LoadManageable(task, config)

\* C11: a task is in visibleTasks only if its domain is enabled, its priority
\* is in visiblePriorities and its cognitive load is in manageableLoads; an
\* input task failing any one of the three is in hiddenTasks; under a config
\* with both domains disabled visibleTasks is empty.
C11_VisibleOnlyIfEligible ==
    \A r \in taskResult :
        /\ \A j \in 1..Len(r.visibleTasks) : AllThreeHold(r.visibleTasks[j], taskConfig)
        /\ \A i \in 1..Len(tasks) :
              ~AllThreeHold(tasks[i], taskConfig) =>
                  \E j \in 1..Len(r.hiddenTasks) :
                      r.hiddenTasks[j] = [ tasks[i] EXCEPT !.visible = FALSE ]
        /\ (~taskConfig.workload.showWorkTasks /\ ~taskConfig.workload.showPersonalTasks) =>
              r.visibleTasks = <<>>

\* the tasks of ts equal to t, whatever their visible flag
Copies(ts, t) ==
    Cardinality({i \in 1..Len(ts) : [ ts[i] EXCEPT !.visible = TRUE ] = [ t EXCEPT !.visible = TRUE ]})

\* C12: every input task is in exactly one of visibleTasks and hiddenTasks, so
\* the two lengths add up to totalTasks; every visible task is flagged visible
\* and every hidden task is flagged not visible.
C12_VisibleHiddenPartition ==
    \A r \in taskResult :
        /\ r.totalTasks = Len(tasks)
        /\ Len(r.visibleTasks) + Len(r.hiddenTasks) = r.totalTasks
        /\ \A i \in 1..Len(tasks) :
              Copies(r.visibleTasks, tasks[i]) + Copies(r.hiddenTasks, tasks[i]) = Copies(tasks, tasks[i])
        /\ \A j \in 1..Len(r.visibleTasks) : r.visibleTasks[j].visible
        /\ \A j \in 1..Len(r.hiddenTasks) : ~r.hiddenTasks[j].visible

(***************************************************************************)
(* Claims about CalendarModulator.modulate, checked under SpecCalendar     *)
(* (continued).                                                            *)
(***************************************************************************)
\* the sum of end - start over the events of es, in minutes
RECURSIVE SumDurations(_)
SumDurations(es) ==
    IF es = <<>> THEN 0
    ELSE (Head(es).endTime - Head(es).startTime) + SumDurations(Tail(es))

\* C13: totalHours is the sum of the durations of activeEvents, and
\* calendarLimitExceeded is true exactly when that sum is strictly greater
\* than maxCalendarHours; a total exactly at the cap is not exceeded.
C13_TotalHoursAndLimit ==
    \A r \in calResult :
        /\ r.totalHours = SumDurations(r.activeEvents)
        /\ r.calendarLimitExceeded <=>
              (SumDurations(r.activeEvents) > 60 * calConfig.workload.maxCalendarHours)

\* two active events whose hours add up to the cap exactly
C13_Witness ==
    \E r \in calResult :
        /\ Len(r.activeEvents) = 2
        /\ \A j \in 1..2 : r.activeEvents[j].endTime > r.activeEvents[j].startTime
        /\ r.totalHours = 60 * calConfig.workload.maxCalendarHours
        /\ ~r.calendarLimitExceeded

\* the gap in minutes between the k-th active event and the one after it
GapAfter(es, k) == es[k + 1].startTime - es[k].endTime

\* the adjacent pairs of es that a buffer belongs to, and the m-th of them
BufferedPairs(es) == {k \in 1..(Len(es) - 1) : GapAfter(es, k) > 0}

NthPair(es, m) ==
    CHOOSE k \in BufferedPairs(es) : Cardinality({x \in BufferedPairs(es) : x < k}) = m - 1

\* C14: with addRecoveryBuffers set, each adjacent pair of activeEvents with a
\* gap of at least bufferMinutes gets exactly one buffer of bufferMinutes
\* starting at the end of the first event, a pair with a smaller positive gap
\* gets exactly one buffer filling the gap, and a pair with no gap gets none;
\* without addRecoveryBuffers there are no buffers.
C14_BufferPerGap ==
    \A r \in calResult :
        LET es == r.activeEvents
            b == calConfig.calendarIntent.bufferMinutes
        IN  IF calConfig.calendarIntent.addRecoveryBuffers
            THEN /\ Len(r.recoveryBuffers) = Cardinality(BufferedPairs(es))
                 /\ \A m \in 1..Len(r.recoveryBuffers) :
                       LET k == NthPair(es, m)
                           buf == r.recoveryBuffers[m]
                       IN  /\ buf.afterEventId = es[k].id
                           /\ buf.startTime = es[k].endTime
                           /\ GapAfter(es, k) >= b =>
                                 buf.durationMinutes = b /\ buf.endTime = es[k].endTime + b
                           /\ GapAfter(es, k) < b =>
                                 buf.durationMinutes = GapAfter(es, k) /\ buf.endTime = es[k + 1].startTime
            ELSE r.recoveryBuffers = <<>>

\* three active events: a gap shorter than the buffer, then a longer one
C14_Witness ==
    \E r \in calResult :
        /\ calConfig.calendarIntent.addRecoveryBuffers
        /\ Len(r.activeEvents) = 3 /\ Len(r.recoveryBuffers) = 2
        /\ r.recoveryBuffers[1].durationMinutes < calConfig.calendarIntent.bufferMinutes
        /\ r.recoveryBuffers[2].durationMinutes = calConfig.calendarIntent.bufferMinutes
        /\ GapAfter(r.activeEvents, 2) > calConfig.calendarIntent.bufferMinutes

\* back-to-back events, and a config without buffers over events with a gap
C14_WitnessNoBuffer ==
    \E r \in calResult :
        /\ Len(r.activeEvents) = 2 /\ r.recoveryBuffers = <<>>
        /\ \/ calConfig.calendarIntent.addRecoveryBuffers /\ GapAfter(r.activeEvents, 1) = 0
           \/ ~calConfig.calendarIntent.addRecoveryBuffers /\ GapAfter(r.activeEvents, 1) > 0

\* every input event ends after it starts
AllEventsPositive == \A i \in 1..Len(calEvents) : calEvents[i].endTime > calEvents[i].startTime

\* C15: for an event list whose events all end after they start, the recovery
\* buffers of one call do not overlap: there is at most one buffer per adjacent
\* pair of active events, and two buffers share at most an endpoint.
C15_BuffersDisjoint ==
    \A r \in calResult :
        AllEventsPositive =>
            /\ Len(r.recoveryBuffers) <= Len(r.activeEvents)
            /\ r.activeEvents # <<>> => Len(r.recoveryBuffers) <= Len(r.activeEvents) - 1
            /\ \A m, n \in 1..Len(r.recoveryBuffers) :
                  m # n =>
                      \/ r.recoveryBuffers[m].endTime <= r.recoveryBuffers[n].startTime
                      \/ r.recoveryBuffers[n].endTime <= r.recoveryBuffers[m].startTime

\* two buffers in one result, the second starting after the first ends
C15_Witness ==
    \E r \in calResult :
        /\ AllEventsPositive
        /\ Len(r.recoveryBuffers) = 2
        /\ r.recoveryBuffers[1].endTime < r.recoveryBuffers[2].startTime
        /\ r.recoveryBuffers[1].durationMinutes > 0 /\ r.recoveryBuffers[2].durationMinutes > 0

\* C16: under a config whose suggestCancellation is false, suggestedCancellations
\* is empty for every input event list.
C16_NoSuggestionsWhenDisabled ==
    \A r \in calResult :
        ~calConfig.calendarIntent.suggestCancellation => r.suggestedCancellations = <<>>

\* es with every event that ends at or before its start cut to no length
ZeroLengthFor(es) ==
    [ i \in 1..Len(es) |->
        IF es[i].endTime <= es[i].startTime THEN [ es[i] EXCEPT !.endTime = es[i].startTime ]
        ELSE es[i] ]

\* the ids of the events of es, in order
IdsOf(es) == [ i \in 1..Len(es) |-> es[i].id ]

\* C17: an event that ends at or before its start is accepted and adds exactly
\* zero hours: totalHours and the routing of every event are those of the list
\* in which such events have no length, and the running total, the sum over a
\* growing prefix of activeEvents, never decreases.
C17_DegenerateEventAddsZero ==
    \A r \in calResult :
        LET z == calendarModulate(ZeroLengthFor(calEvents), calConfig)
        IN  /\ r.totalHours = z.totalHours
            /\ IdsOf(r.activeEvents) = IdsOf(z.activeEvents)
            /\ IdsOf(r.suggestedCancellations) = IdsOf(z.suggestedCancellations)
            /\ r.calendarLimitExceeded = z.calendarLimitExceeded
            /\ \A k \in 1..Len(r.activeEvents) :
                  SumDurations(SubSeq(r.activeEvents, 1, k - 1)) <= SumDurations(SubSeq(r.activeEvents, 1, k))

(***************************************************************************)
(* Repeated calls on one TaskModulator and one CalendarModulator.  Neither *)
(* class has a field, so a call leaves behind only what it returned: the   *)
(* next call is handed the list of the call before or a list made of the   *)
(* records the call before returned, under any config.                     *)
(***************************************************************************)
RepeatTaskPool == {t \in TaskPool : t.domain = "work" /\ t.estimatedMinutes = Some(45)}

RepeatEventPool ==
    {e \in EventPool : e.intent \in {"recovery", "focus"} /\ e.startTime = 0 /\ e.endTime > 0}

\* the lists a caller holds after the calls so far
TaskArguments ==
    ({tasks} \cup UNION { {r.hiddenTasks, r.visibleTasks \o r.hiddenTasks} : r \in taskResult })
        \ {<<>>}

EventArguments ==
    ({calEvents}
        \cup UNION { {r.suggestedCancellations, r.activeEvents \o r.suggestedCancellations} :
                     r \in calResult })
        \ {<<>>}

\* one side is handed a list, the other has nothing to modulate
RepeatInit ==
    /\ IdleStateManager /\ IdleLifeOS /\ IdleCli
    /\ taskConfig = DEFAULT_STATE_CONFIGS[DEFAULT_CAPACITY] /\ taskResult = None
    /\ calConfig = DEFAULT_STATE_CONFIGS[DEFAULT_CAPACITY] /\ calResult = None
    /\ \/ tasks \in UNION { [1..n -> RepeatTaskPool] : n \in 1..MaxTasks } /\ calEvents = <<>>
       \/ calEvents \in UNION { [1..n -> RepeatEventPool] : n \in 1..MaxEvents } /\ tasks = <<>>

ModulateTasksAgain(tasksArg, config) ==
    /\ tasks' = tasksArg
    /\ taskConfig' = config
    /\ taskResult' = Some(taskModulate(tasksArg, config))
    /\ UNCHANGED <<smVars, calVars, lifeVars, cliVars>>

ModulateCalendarAgain(eventsArg, config) ==
    /\ calEvents' = eventsArg
    /\ calConfig' = config
    /\ calResult' = Some(calendarModulate(eventsArg, config))
    /\ UNCHANGED <<smVars, taskVars, lifeVars, cliVars>>

RepeatNext ==
    \/ \E tasksArg \in TaskArguments, config \in TaskConfigs : ModulateTasksAgain(tasksArg, config)
    \/ \E eventsArg \in EventArguments, config \in CalendarConfigs :
          ModulateCalendarAgain(eventsArg, config)

SpecRepeat == RepeatInit /\ [][RepeatNext]_vars

(***************************************************************************)
(* Claims about repeated modulation, checked under SpecRepeat.             *)
(***************************************************************************)
\* a list as the sources deliver it: no flag of an earlier call on its records
AsFetchedTasks(ts) == [ i \in 1..Len(ts) |-> [ ts[i] EXCEPT !.visible = TRUE ] ]

AsFetchedEvents(es) == [ i \in 1..Len(es) |-> [ es[i] EXCEPT !.active = TRUE ] ]

\* C18: modulation keeps nothing between calls: after any sequence of earlier
\* calls with other lists and configs, the result for a list and a config is the
\* result a first call gives for them, and a task or event that an earlier call
\* hid, and flagged so, is treated as if it came fresh from its source.
C18_NoCarryOver ==
    /\ \A r \in taskResult : r = taskModulate(AsFetchedTasks(tasks), taskConfig)
    /\ \A r \in calResult : r = calendarModulate(AsFetchedEvents(calEvents), calConfig)

\* a task hidden by an earlier call is visible under driven
C18_Witness ==
    \E r \in taskResult :
        /\ taskConfig.state = "driven" /\ taskConfig.taskVisibility.maxVisibleTasks > 0
        /\ Len(tasks) >= 2
        /\ \A i \in 1..Len(tasks) : ~tasks[i].visible
        /\ Len(r.visibleTasks) = Len(tasks)

\* an event suggested for cancellation by an earlier call is active under driven
C18_WitnessCalendar ==
    \E r \in calResult :
        /\ calConfig.state = "driven"
        /\ calEvents # <<>>
        /\ \A i \in 1..Len(calEvents) : ~calEvents[i].active
        /\ Len(r.activeEvents) = Len(calEvents)

(***************************************************************************)
(* Claims about the catalog and the StateManager, checked under Spec       *)
(* (continued).                                                            *)
(***************************************************************************)
\* C19: the catalog has, for every recognized state, a config whose state
\* field is that state and whose fallback target is a recognized state; after
\* any sequence of setState (with valid or invalid names), reset and degrade
\* calls the current state is a recognized state and getConfig() is the config
\* whose state field is getState().
C19_StateRecognizedAndConfigured ==
    /\ \A s \in Recognized :
          /\ s \in DOMAIN DEFAULT_STATE_CONFIGS
          /\ DEFAULT_STATE_CONFIGS[s].state = s
          /\ FallbackOf(s).fallbackState \in Recognized
    /\ getState \in Recognized
    /\ getConfig.state = getState

\* a rejected name after a reset and a successful degrade
C19_Witness ==
    /\ ncalls >= 3
    /\ last.op = "setState" /\ last.arg \in {"social", "invalid"} /\ ~last.ret
    /\ getState = "flat" /\ getConfig.state = "flat"

\* the names the catalog has a config for
CatalogStates == DOMAIN DEFAULT_STATE_CONFIGS

\* C20: there are exactly seven recognized capacity states, foggy, anxious,
\* flat, overstimulated, driven, productive and social, and setState enters
\* every state the catalog has an entry for, social included.
C20_SevenStatesAllEnterable ==
    (last.op = "setState" /\ last.arg \in CatalogStates) =>
        /\ getState = last.arg
        /\ Recognized = {"foggy", "anxious", "flat", "overstimulated", "driven", "productive", "social"}
        /\ Cardinality(Recognized) = 7

(***************************************************************************)
(* Claims about the order and the limits of visibleTasks, checked under    *)
(* SpecTask.                                                               *)
(***************************************************************************)
\* the input tasks that satisfy the three conditions, in input order
EligibleIn(ts, config) == SelectSeq(ts, LAMBDA t : AllThreeHold(t, config))

\* ts with the tasks of each priority together, essential first, each group in
\* input order
ByRank(ts) ==
    SelectSeq(ts, LAMBDA t : t.priority = "essential")
        \o SelectSeq(ts, LAMBDA t : t.priority = "important")
        \o SelectSeq(ts, LAMBDA t : t.priority = "normal")
        \o SelectSeq(ts, LAMBDA t : t.priority = "optional")

\* the first k tasks of ts are within both caps of config
PrefixFits(ts, k, config) ==
    /\ k <= config.taskVisibility.maxVisibleTasks
    /\ SumMinutes(SubSeq(ts, 1, k)) <= config.workload.maxDailyMinutes

LongestFittingPrefix(ts, config) ==
    LET fits == {k \in 0..Len(ts) : \A j \in 0..k : PrefixFits(ts, j, config)}
        n == CHOOSE k \in fits : \A j \in fits : j <= k
    IN  SubSeq(ts, 1, n)

\* C24: visibleTasks is the longest prefix of the eligible tasks, sorted by
\* priority rank with ties in input order, that has at most maxVisibleTasks
\* tasks and at most maxDailyMinutes minutes in all; no task behind the first
\* rejected one is visible, even if it would fit under both caps on its own.
C24_VisibleIsLongestPrefix ==
    \A r \in taskResult :
        (taskConfig.taskVisibility.maxVisibleTasks >= 0 /\ taskConfig.workload.maxDailyMinutes >= 0) =>
            r.visibleTasks = LongestFittingPrefix(ByRank(EligibleIn(tasks, taskConfig)), taskConfig)

\* the second task is over the minute cap; the third, of lower rank, input
\* first, would still fit and is hidden
C24_Witness ==
    \E r \in taskResult :
        LET sorted == ByRank(EligibleIn(tasks, taskConfig))
        IN  /\ Len(sorted) = 3 /\ Len(r.visibleTasks) = 1
            /\ sorted[3] = tasks[1] /\ sorted[1] # sorted[2]
            /\ r.totalMinutes + SumMinutes(<<sorted[3]>>) <= taskConfig.workload.maxDailyMinutes
            /\ Len(r.visibleTasks) + 1 <= taskConfig.taskVisibility.maxVisibleTasks

\* C25: workloadLimitReached is true exactly when some eligible task was not
\* admitted to visibleTasks; it is false when every eligible task is visible,
\* also with exactly maxVisibleTasks eligible tasks or the minute cap met
\* exactly, when only ineligible tasks are hidden, and for the empty list.
C25_LimitReachedIffEligibleHidden ==
    \A r \in taskResult :
        /\ r.workloadLimitReached <=> (Len(r.visibleTasks) < Len(EligibleIn(tasks, taskConfig)))
        /\ tasks = <<>> => ~r.workloadLimitReached

\* exactly maxVisibleTasks eligible tasks, all visible, and an ineligible one hidden
C25_Witness ==
    \E r \in taskResult :
        /\ Len(r.visibleTasks) = taskConfig.taskVisibility.maxVisibleTasks
        /\ Len(r.visibleTasks) = Len(EligibleIn(tasks, taskConfig))
        /\ Len(r.visibleTasks) >= 1
        /\ Len(tasks) > Len(r.visibleTasks)
        /\ ~r.workloadLimitReached

\* every eligible task visible with the minute cap met exactly
C25_WitnessMinutes ==
    \E r \in taskResult :
        /\ r.totalMinutes = taskConfig.workload.maxDailyMinutes /\ r.totalMinutes > 0
        /\ Len(r.visibleTasks) = Len(EligibleIn(tasks, taskConfig))
        /\ ~r.workloadLimitReached

(***************************************************************************)
(* Claims about runs of degrade calls, checked under Spec.                 *)
(***************************************************************************)
\* C28: from every recognized state, degrade calls reach foggy after at most
\* three that return true (productive, driven, flat, foggy); a degrade that
\* returns false found the state foggy and leaves it foggy, so a run of
\* degrade calls ends in a fixed point.
C28_DegradeRunEndsInFoggy ==
    last.op = "degrade" =>
        /\ last.degrades <= 3
        /\ last.degrades = 3 => getState = "foggy"
        /\ last.ret => getState # last.prevState
        /\ ~last.ret => last.prevState = "foggy" /\ getState = "foggy"

\* three successful degrade calls, then one that returns false
C28_Witness ==
    /\ last.op = "degrade" /\ last.degrades = 3 /\ ~last.ret
    /\ getState = "foggy"

(***************************************************************************)
(* Claims about the routing of events, checked under SpecCalendar.         *)
(***************************************************************************)
\* the place of es[i] when es is put in start-time order, ties in input order
PlaceInStartOrder(es, i) ==
    1 + Cardinality({j \in 1..Len(es) :
            \/ es[j].startTime < es[i].startTime
            \/ es[j].startTime = es[i].startTime /\ j < i})

InStartOrder(es) ==
    [ p \in 1..Len(es) |-> es[CHOOSE i \in 1..Len(es) : PlaceInStartOrder(es, i) = p] ]

\* where the k-th event of es goes, and the hours admitted before it
RECURSIVE FateOf(_, _, _)
RECURSIVE HoursBefore(_, _, _)
HoursBefore(es, k, config) ==
    IF k = 1 THEN 0
    ELSE HoursBefore(es, k - 1, config)
            + (IF FateOf(es, k - 1, config) = "active"
               THEN es[k - 1].endTime - es[k - 1].startTime ELSE 0)

FateOf(es, k, config) ==
    LET honored == es[k].intent = "essential" \/ es[k].intent \in config.calendarIntent.honoredIntents
        within == HoursBefore(es, k, config) + (es[k].endTime - es[k].startTime)
                      <= 60 * config.workload.maxCalendarHours
    IN  CASE honored /\ within -> "active"
          [] honored /\ ~within /\ es[k].intent = "essential" -> "active"
          [] honored /\ ~within /\ es[k].intent # "essential" -> "suggested"
          [] ~honored /\ config.calendarIntent.suggestCancellation -> "suggested"
          [] OTHER -> "dropped"

\* the m-th smallest member of a set of indices
NthOf(K, m) == CHOOSE k \in K : Cardinality({x \in K : x < k}) = m - 1

\* the events of es with the given fate, in order, flagged
EventsWithFate(es, fate, flag, config) ==
    LET K == {k \in 1..Len(es) : FateOf(es, k, config) = fate}
    IN  [ m \in 1..Cardinality(K) |-> [ es[NthOf(K, m)] EXCEPT !.active = flag ] ]

C27_OverCapEssentialBlocksLater ==
    \A r \in calResult :
        LET sorted == InStartOrder(calEvents)
            cap == 60 * calConfig.workload.maxCalendarHours
        IN  \A e, k \in 1..Len(sorted) :
                (/\ e < k
                 /\ sorted[e].intent = "essential"
                 /\ HoursBefore(sorted, e + 1, calConfig) > cap
                 /\ sorted[k].intent # "essential"
                 /\ sorted[k].intent \in calConfig.calendarIntent.honoredIntents
                 /\ sorted[k].endTime > sorted[k].startTime) =>
                    /\ \E j \in 1..Len(r.suggestedCancellations) :
                          r.suggestedCancellations[j] = [ sorted[k] EXCEPT !.active = FALSE ]
                    /\ \A j \in 1..Len(r.activeEvents) :
                          r.activeEvents[j].id = sorted[k].id =>
                              \E i \in 1..Len(sorted) : i # k /\ sorted[i] = sorted[k]

\* C29: for an event list whose events all end after they start and a config
\* with addRecoveryBuffers set, no recovery buffer overlaps an event of
\* activeEvents, also when active events overlap or lie within one another.
C29_BuffersClearOfActiveEvents ==
    \A r \in calResult :
        (AllEventsPositive /\ calConfig.calendarIntent.addRecoveryBuffers) =>
            \A m \in 1..Len(r.recoveryBuffers), j \in 1..Len(r.activeEvents) :
                \/ r.recoveryBuffers[m].endTime <= r.activeEvents[j].startTime
                \/ r.activeEvents[j].endTime <= r.recoveryBuffers[m].startTime

(***************************************************************************)
(* Integrations: the task managers and calendars and their fetch methods.  *)
(* Times of day are minutes since the start of today.                      *)
(***************************************************************************)
AsanaTasks ==
    << [ id |-> "asana-1", priority |-> "important", domain |-> "work", cognitiveLoad |-> "high",
         estimatedMinutes |-> Some(120), visible |-> TRUE, source |-> "asana" ],
       [ id |-> "asana-2", priority |-> "normal", domain |-> "work", cognitiveLoad |-> "medium",
         estimatedMinutes |-> Some(45), visible |-> TRUE, source |-> "asana" ] >>

ObsidianTasks ==
    << [ id |-> "obsidian-1", priority |-> "important", domain |-> "personal", cognitiveLoad |-> "high",
         estimatedMinutes |-> Some(90), visible |-> TRUE, source |-> "obsidian" ],
       [ id |-> "obsidian-2", priority |-> "normal", domain |-> "personal", cognitiveLoad |-> "medium",
         estimatedMinutes |-> Some(30), visible |-> TRUE, source |-> "obsidian" ] >>

\* the tasks handed to MockTaskManager.setTasks
MockTasks ==
    << [ id |-> "1", priority |-> "essential", domain |-> "work", cognitiveLoad |-> "minimal",
         estimatedMinutes |-> Some(30), visible |-> TRUE, source |-> "mock" ],
       [ id |-> "2", priority |-> "optional", domain |-> "personal", cognitiveLoad |-> "high",
         estimatedMinutes |-> Some(60), visible |-> TRUE, source |-> "mock" ] >>

\* GoogleCalendarIntegration.getMockEvents: 10:00-11:00 and 14:00-16:00
GoogleEvents ==
    << [ id |-> "gcal-1", startTime |-> 600, endTime |-> 660, intent |-> "collaborative",
         active |-> TRUE, calendarProvider |-> "google-calendar" ],
       [ id |-> "gcal-2", startTime |-> 840, endTime |-> 960, intent |-> "focus",
         active |-> TRUE, calendarProvider |-> "google-calendar" ] >>

\* the events handed to MockCalendar.setEvents: 09:00-10:00
MockEvents ==
    << [ id |-> "e1", startTime |-> 540, endTime |-> 600, intent |-> "essential",
         active |-> TRUE, calendarProvider |-> "mock" ] >>

\* 00:00:00 to 23:59:59 of today, and the same of yesterday
Today == [ start |-> 0, end |-> 1439 ]

Yesterday == [ start |-> 0 - 1440, end |-> 0 - 1 ]

isConnected(i) == connected[i]

fetchTasks(m) ==
    CASE m = "asana" -> IF ~isConnected(m) THEN <<>> ELSE AsanaTasks
      [] m = "obsidian" -> IF ~isConnected(m) THEN <<>> ELSE ObsidianTasks
      [] m = "mock" -> MockTasks

fetchEvents(c, range) ==
    CASE c = "google-calendar" ->
            IF ~isConnected(c) THEN <<>>
            ELSE SelectSeq(GoogleEvents,
                           LAMBDA e : e.startTime >= range.start /\ e.endTime <= range.end)
      [] c = "mock-work" ->
            SelectSeq(MockEvents, LAMBDA e : e.startTime >= range.start /\ e.endTime <= range.end)

fetchTodayEvents(c) == fetchEvents(c, Today)

\* listed and view hold what the latest call returned, when that call was a
\* listing or a daily view.
\* BaseCalendarIntegration.connect / disconnect
Connect(c) ==
    /\ connected' = [ connected EXCEPT ![c] = TRUE ]
    /\ listed' = NoListing /\ view' = None
    /\ UNCHANGED <<fetched, taskManagers, calendars, pending>>
    /\ UNCHANGED <<smVars, taskVars, calVars, cliVars>>

Disconnect(c) ==
    /\ connected' = [ connected EXCEPT ![c] = FALSE ]
    /\ listed' = NoListing /\ view' = None
    /\ UNCHANGED <<fetched, taskManagers, calendars, pending>>
    /\ UNCHANGED <<smVars, taskVars, calVars, cliVars>>

\* BaseTaskManagerIntegration.setConnected
SetConnected(m, value) ==
    /\ connected' = [ connected EXCEPT ![m] = value ]
    /\ listed' = NoListing /\ view' = None
    /\ UNCHANGED <<fetched, taskManagers, calendars, pending>>
    /\ UNCHANGED <<smVars, taskVars, calVars, cliVars>>

\* what a fetch made on the integration itself leaves behind
Fetched(source, op, items) ==
    [ source |-> source, op |-> op, wasConnected |-> isConnected(source), items |-> items ]

FetchTasks(m) ==
    /\ fetched' = Fetched(m, "fetchTasks", fetchTasks(m))
    /\ UNCHANGED <<connected, taskManagers, calendars, listed, pending, view>>
    /\ UNCHANGED <<smVars, taskVars, calVars, cliVars>>

FetchEvents(c, range) ==
    /\ fetched' = Fetched(c, "fetchEvents", fetchEvents(c, range))
    /\ UNCHANGED <<connected, taskManagers, calendars, listed, pending, view>>
    /\ UNCHANGED <<smVars, taskVars, calVars, cliVars>>

FetchTodayEvents(c) ==
    /\ fetched' = Fetched(c, "fetchTodayEvents", fetchTodayEvents(c))
    /\ UNCHANGED <<connected, taskManagers, calendars, listed, pending, view>>
    /\ UNCHANGED <<smVars, taskVars, calVars, cliVars>>

IdleModulators ==
    /\ tasks = <<>> /\ taskConfig = DEFAULT_STATE_CONFIGS[DEFAULT_CAPACITY] /\ taskResult = None
    /\ calEvents = <<>> /\ calConfig = DEFAULT_STATE_CONFIGS[DEFAULT_CAPACITY] /\ calResult = None

IntegrationsInit == IdleStateManager /\ IdleModulators /\ IdleLifeOS /\ IdleCli

IntegrationsNext ==
    \/ \E c \in CalendarSources : Connect(c)
    \/ \E c \in CalendarSources : Disconnect(c)
    \/ \E m \in TaskSources, value \in BOOLEAN : SetConnected(m, value)
    \/ \E m \in TaskSources : FetchTasks(m)
    \/ \E c \in CalendarSources, range \in {Today, Yesterday} : FetchEvents(c, range)
    \/ \E c \in CalendarSources : FetchTodayEvents(c)

SpecIntegrations == IntegrationsInit /\ [][IntegrationsNext]_vars

(***************************************************************************)
(* LifeOS: the orchestrator over one StateManager, the two modulators and  *)
(* the integrations added to it.  getDailyView is asynchronous: it runs to *)
(* its first await when called, and other calls run while it is pending.   *)
(***************************************************************************)
\* the integrations handed to addTaskManager and addCalendar
LifeTaskManagers == {"asana", "mock"}

LifeCalendars == {"google-calendar"}

\* the capacities handed to setCapacity
Capacities == {"driven"}

RECURSIVE Flat(_)
Flat(lists) == IF lists = <<>> THEN <<>> ELSE Head(lists) \o Flat(Tail(lists))

\* mutant: every added task manager is returned
getTaskManagers_all == taskManagers

getTaskManagers == SelectSeq(taskManagers, LAMBDA m : isConnected(m))

getCalendars == SelectSeq(calendars, LAMBDA c : isConnected(c))

fetchAllTasks ==
    LET sources == SelectSeq(taskManagers, LAMBDA m : isConnected(m))
        results == [ i \in 1..Len(sources) |-> fetchTasks(sources[i]) ]
    IN  Flat(results)

LifeOS_fetchTodayEvents ==
    LET sources == SelectSeq(calendars, LAMBDA c : isConnected(c))
        results == [ i \in 1..Len(sources) |-> fetchTodayEvents(sources[i]) ]
    IN  Flat(results)

\* mutant: the calendar is modulated under the config current at the end
DailyViewOf_currentConfig(p) ==
    [ state |-> p.state,
      config |-> p.config,
      tasks |-> taskModulate(p.allTasks, p.config),
      calendar |-> calendarModulate(p.allEvents, getConfig),
      generatedAt |-> clock,
      energyBudget |-> getConfig.workload.energyBudget ]

\* the view getDailyView builds from the locals p of the pending call
DailyViewOf(p) ==
    [ state |-> p.state,
      config |-> p.config,
      tasks |-> taskModulate(p.allTasks, p.config),
      calendar |-> calendarModulate(p.allEvents, p.config),
      generatedAt |-> clock,
      energyBudget |-> p.config.workload.energyBudget ]

AddTaskManager(m) ==
    /\ \A i \in 1..Len(taskManagers) : taskManagers[i] # m
    /\ taskManagers' = Append(taskManagers, m)
    /\ listed' = NoListing /\ view' = None
    /\ UNCHANGED <<connected, fetched, calendars, pending>>
    /\ UNCHANGED <<smVars, taskVars, calVars, cliVars>>

AddCalendar(c) ==
    /\ \A i \in 1..Len(calendars) : calendars[i] # c
    /\ calendars' = Append(calendars, c)
    /\ listed' = NoListing /\ view' = None
    /\ UNCHANGED <<connected, fetched, taskManagers, pending>>
    /\ UNCHANGED <<smVars, taskVars, calVars, cliVars>>

\* a call handed on to the StateManager
Delegated(out) ==
    /\ currentState' = out.currentState
    /\ stateSetAt' = out.stateSetAt
    /\ notified' = notified + Len(out.emitted)
    /\ UNCHANGED <<observer, clock, last, ncalls>>

SetCapacity(capacity) ==
    /\ Delegated(setState(capacity, None))
    /\ listed' = NoListing /\ view' = None
    /\ UNCHANGED <<connected, fetched, taskManagers, calendars, pending>>
    /\ UNCHANGED <<taskVars, calVars, cliVars>>

ResetCapacity ==
    /\ Delegated(reset)
    /\ listed' = NoListing /\ view' = None
    /\ UNCHANGED <<connected, fetched, taskManagers, calendars, pending>>
    /\ UNCHANGED <<taskVars, calVars, cliVars>>

DegradeGracefully(trigger) ==
    /\ Delegated(degrade(trigger))
    /\ listed' = NoListing /\ view' = None
    /\ UNCHANGED <<connected, fetched, taskManagers, calendars, pending>>
    /\ UNCHANGED <<taskVars, calVars, cliVars>>

\* the integrations of a kind that are connected now
ConnectedAmong(kind) == { i \in kind : isConnected(i) }

GetTaskManagers ==
    /\ listed' = [ op |-> "getTaskManagers", added |-> taskManagers,
                   connectedThen |-> ConnectedAmong(TaskSources), result |-> getTaskManagers ]
    /\ view' = None
    /\ UNCHANGED <<connected, fetched, taskManagers, calendars, pending>>
    /\ UNCHANGED <<smVars, taskVars, calVars, cliVars>>

GetCalendars ==
    /\ listed' = [ op |-> "getCalendars", added |-> calendars,
                   connectedThen |-> ConnectedAmong(CalendarSources), result |-> getCalendars ]
    /\ view' = None
    /\ UNCHANGED <<connected, fetched, taskManagers, calendars, pending>>
    /\ UNCHANGED <<smVars, taskVars, calVars, cliVars>>

\* getDailyView is called: state and config are read, fetchAllTasks filters the
\* task managers and calls their fetchTasks, and the call waits
GetDailyViewCall ==
    /\ pending = None
    /\ pending' = Some([ at |-> "allTasks", state |-> getState, config |-> getConfig,
                         allTasks |-> fetchAllTasks, allEvents |-> <<>>,
                         tasksAdded |-> taskManagers,
                         tasksFrom |-> ConnectedAmong(TaskSources),
                         eventsAdded |-> <<>>, eventsFrom |-> {} ])
    /\ listed' = NoListing /\ view' = None
    /\ UNCHANGED <<connected, fetched, taskManagers, calendars>>
    /\ UNCHANGED <<smVars, taskVars, calVars, cliVars>>

\* the task lists arrive: fetchTodayEvents filters the calendars and calls
\* their fetchTodayEvents, and the call waits again
GetDailyViewFetchEvents ==
    /\ \E p \in pending :
        /\ p.at = "allTasks"
        /\ pending' = Some([ p EXCEPT !.at = "allEvents",
                                      !.allEvents = LifeOS_fetchTodayEvents,
                                      !.eventsAdded = calendars,
                                      !.eventsFrom = ConnectedAmong(CalendarSources) ])
    /\ listed' = NoListing /\ view' = None
    /\ UNCHANGED <<connected, fetched, taskManagers, calendars>>
    /\ UNCHANGED <<smVars, taskVars, calVars, cliVars>>

\* the event lists arrive: both modulators run and the view is returned
GetDailyViewReturn ==
    /\ \E p \in pending :
        /\ p.at = "allEvents"
        /\ view' = Some([ daily |-> DailyViewOf(p), locals |-> p, returnedIn |-> currentState ])
    /\ pending' = None
    /\ listed' = NoListing
    /\ UNCHANGED <<connected, fetched, taskManagers, calendars>>
    /\ UNCHANGED <<smVars, taskVars, calVars, cliVars>>

LifeOSInit == IdleStateManager /\ IdleModulators /\ IdleLifeOS /\ IdleCli

LifeOSNext ==
    \/ \E m \in LifeTaskManagers : AddTaskManager(m)
    \/ \E c \in LifeCalendars : AddCalendar(c)
    \/ \E m \in LifeTaskManagers, value \in BOOLEAN : SetConnected(m, value)
    \/ \E c \in LifeCalendars : Connect(c)
    \/ \E c \in LifeCalendars : Disconnect(c)
    \/ \E capacity \in Capacities : SetCapacity(capacity)
    \/ ResetCapacity
    \/ \E trigger \in Triggers : DegradeGracefully(trigger)
    \/ GetTaskManagers
    \/ GetCalendars
    \/ GetDailyViewCall
    \/ GetDailyViewFetchEvents
    \/ GetDailyViewReturn

SpecLifeOS == LifeOSInit /\ [][LifeOSNext]_vars

(***************************************************************************)
(* The command line: every invocation is a new process that builds its     *)
(* LifeOS from the state file, runs one command and exits.                 *)
(***************************************************************************)
\* argv[2]: mood, backoff, sync, view, and a word main does not know
Commands == {"mood", "backoff", "sync", "view", "degrade"}

\* argv[3]: absent, a capacity, or a word that is no capacity
Values == {"", "driven", "productive", "fatigue"}

loadState ==
    IF stateFile # None
    THEN LET lastState == OrElse(stateFile, "")
         IN  IF isValidCapacity(lastState) THEN Some(lastState) ELSE None
    ELSE None

\* the process starts: new LifeOS({ initialState: loadState() ?? undefined })
CliStart(command, value) ==
    /\ cliRun.pc = "exited"
    /\ currentState' = OrElse(loadState, DEFAULT_CAPACITY)
    /\ stateSetAt' = clock
    /\ notified' = 0
    /\ cliRun' = [ pc |-> "main", command |-> command, value |-> value,
                   startedIn |-> currentState', endedIn |-> "",
                   previousEndedIn |-> cliRun.endedIn ]
    /\ UNCHANGED <<observer, clock, last, ncalls, stateFile>>
    /\ UNCHANGED <<taskVars, calVars, lifeVars>>

\* handleSetCapacity: the state after it and whether saveState ran
handleSetCapacity(capacity) ==
    IF capacity = "" THEN [ out |-> NoChange, saved |-> FALSE ]
    ELSE IF ~isValidCapacity(capacity) THEN [ out |-> NoChange, saved |-> FALSE ]
    ELSE [ out |-> setState(capacity, None), saved |-> TRUE ]

\* handleDegrade: trigger defaults to 'manual'; the state file is not written
handleDegrade(trigger) ==
    [ out |-> degrade(IF trigger = "" THEN "manual" ELSE trigger), saved |-> FALSE ]

\* main runs the command and the process exits
CliMain ==
    /\ cliRun.pc = "main"
    /\ LET done == CASE cliRun.command = "mood" -> handleSetCapacity(cliRun.value)
                     [] cliRun.command = "backoff" -> handleDegrade(cliRun.value)
                     [] OTHER -> [ out |-> NoChange, saved |-> FALSE ]
       IN  /\ Delegated(done.out)
           /\ stateFile' = IF done.saved THEN Some(cliRun.value) ELSE stateFile
           /\ cliRun' = [ cliRun EXCEPT !.pc = "exited", !.endedIn = done.out.currentState ]
    /\ UNCHANGED <<taskVars, calVars, lifeVars>>

CliInit == IdleStateManager /\ IdleModulators /\ IdleLifeOS /\ IdleCli

CliNext ==
    \/ \E command \in Commands, value \in Values : CliStart(command, value)
    \/ CliMain

SpecCli == CliInit /\ [][CliNext]_vars

(***************************************************************************)
(* Claims about the integrations, checked under SpecIntegrations.          *)
(***************************************************************************)
\* C21: a task source or calendar source that is not connected returns an
\* empty list from fetchTasks, fetchEvents and fetchTodayEvents, at any point
\* of a sequence of connects and disconnects and for every integration class,
\* the mock ones included.
C21_DisconnectedFetchIsEmpty ==
    (fetched.op # "none" /\ ~fetched.wasConnected) => fetched.items = <<>>

(***************************************************************************)
(* Claims about LifeOS, checked under SpecLifeOS.                          *)
(***************************************************************************)
\* the integrations of a list that were connected, in the list's order
ConnectedOf(added, connectedThen) == SelectSeq(added, LAMBDA i : i \in connectedThen)

Members(list) == { list[i] : i \in 1..Len(list) }

\* every task of the list comes from one of the sources
TasksComeFrom(list, sources) == \A i \in 1..Len(list) : list[i].source \in sources

\* every event of the list comes from one of the calendars
EventsComeFrom(list, sources) == \A i \in 1..Len(list) : list[i].calendarProvider \in sources

\* the locals of a getDailyView call hold only items of integrations that were
\* added and connected when the fetch of their kind started
FetchedFromConnected(p) ==
    /\ TasksComeFrom(p.allTasks, Members(p.tasksAdded) \cap p.tasksFrom)
    /\ EventsComeFrom(p.allEvents, Members(p.eventsAdded) \cap p.eventsFrom)

\* C22: getTaskManagers() and getCalendars() return exactly the added
\* integrations that are connected at the time of the call, and the task and
\* event lists getDailyView modulates hold only items of integrations that were
\* connected when their fetch started; an added but disconnected integration
\* contributes nothing.
C22_OnlyConnectedIntegrations ==
    /\ listed.op # "none" => listed.result = ConnectedOf(listed.added, listed.connectedThen)
    /\ \A p \in pending : FetchedFromConnected(p)
    /\ \A v \in view :
        /\ FetchedFromConnected(v.locals)
        /\ v.daily.tasks.totalTasks = Len(v.locals.allTasks)
        /\ TasksComeFrom(v.daily.tasks.visibleTasks \o v.daily.tasks.hiddenTasks,
                         Members(v.locals.tasksAdded) \cap v.locals.tasksFrom)
        /\ v.daily.calendar.totalEvents = Len(v.locals.allEvents)
        /\ EventsComeFrom(v.daily.calendar.activeEvents \o v.daily.calendar.suggestedCancellations,
                          Members(v.locals.eventsAdded) \cap v.locals.eventsFrom)

\* getTaskManagers with two task managers added, one of them disconnected
C22_Witness ==
    /\ listed.op = "getTaskManagers"
    /\ Len(listed.added) = 2
    /\ Len(listed.result) = 1

\* a daily view over tasks of one task manager while the other task manager
\* and the calendar, both added, were disconnected
C22_WitnessView ==
    \E v \in view :
        /\ Len(v.locals.tasksAdded) = 2 /\ Len(v.locals.eventsAdded) = 1
        /\ v.locals.allTasks # <<>>
        /\ \E m \in Members(v.locals.tasksAdded) : m \notin v.locals.tasksFrom
        /\ v.locals.allEvents = <<>>
        /\ v.locals.eventsFrom \cap LifeCalendars = {}

\* C30: getDailyView reads the state and its config once, before it waits for
\* the fetches; whatever setCapacity, resetCapacity or degradeGracefully does
\* while the fetches are pending, the returned view carries the state current
\* at the call, that state's catalog config and energy budget, and both
\* modulation results computed under that one config.
C30_ViewOfOneState ==
    /\ \A p \in pending : p.config = DEFAULT_STATE_CONFIGS[p.state]
    /\ \A v \in view :
        /\ v.daily.state = v.locals.state
        /\ v.daily.config = DEFAULT_STATE_CONFIGS[v.daily.state]
        /\ v.daily.energyBudget = v.daily.config.workload.energyBudget
        /\ v.daily.tasks = taskModulate(v.locals.allTasks, DEFAULT_STATE_CONFIGS[v.locals.state])
        /\ v.daily.calendar =
               calendarModulate(v.locals.allEvents, DEFAULT_STATE_CONFIGS[v.locals.state])

\* a view returned in another state than the one it was called in, over tasks
\* and events that the two states modulate differently
C30_Witness ==
    \E v \in view :
        /\ v.returnedIn # v.daily.state
        /\ v.daily.tasks # taskModulate(v.locals.allTasks, DEFAULT_STATE_CONFIGS[v.returnedIn])
        /\ v.daily.calendar #
               calendarModulate(v.locals.allEvents, DEFAULT_STATE_CONFIGS[v.returnedIn])


(***************************************************************************)
(* Claims about the command line, checked under SpecCli.                   *)
(***************************************************************************)
\* C23: the state a new CLI invocation starts in is the state the previous
\* invocation ended in; in particular, after a degrade command succeeded in
\* one invocation, the next invocation starts in the degraded state.
C23_NextRunStartsWherePreviousEnded ==
    cliRun.previousEndedIn # "" => cliRun.startedIn = cliRun.previousEndedIn
====
